---------------------------- MODULE Spec2Model ----------------------------
(***************************************************************************)
(* Model of the distributed enrollment system: the course service          *)
(* (course-service/main.go), the auth service (auth-service/main.go) and   *)
(* the grade service (grade-service/main.go).  Each service is a set of    *)
(* request handlers run concurrently, one goroutine per request.           *)
(***************************************************************************)
EXTENDS Integers, Sequences, FiniteSets, TLC

(***************************************************************************)
(* Bounds of the model.                                                    *)
(***************************************************************************)
\* Number of requests the course service receives in one run; each request
\* is served by a goroutine of its own (net/http).
MaxRequests == 3
\* Seat count of the largest course (the seeds 20, 15, 30 scaled down).
MaxSlots == 2
\* Ticks of the clock in one second: times have fractions of a second.
TicksPerSecond == 2
\* Number of times the clock is advanced in one run of the auth service.
MaxTicks == 4
\* Number of login requests in one run of the auth service.
MaxLogins == 1
\* Number of requests the grade service receives in one run.
MaxGradeRequests == 2
\* Number of requests the portal serves in one run.
MaxPortalRequests == 2

(***************************************************************************)
(* State.                                                                  *)
(***************************************************************************)
VARIABLES
    \* course service
    mu,           \* sync.Mutex: TRUE when locked
    enrollments,  \* the keys of the map that hold true
    openSlots,    \* OpenSlots of each seeded course
    pc,           \* where the goroutine of each request received is
    req,          \* the decoded request of each goroutine
    resp,         \* the response written to each request
    idx,          \* getCourses: index of the next course of the loop
    raced,        \* history: requests that took the lock while another waited
    \* auth service
    now,          \* time.Now(), in ticks of 1/TicksPerSecond second
    clockSteps,   \* number of times the clock was advanced
    jwtSecret,    \* the JWT_SECRET of the environment of the running process
    minted,       \* history: the tokens issued, each with its time of issue
    nlogin,       \* number of login requests served
    authResp,     \* the auth request served last, with its response
    \* grade service
    gradeBook,    \* the slice of grade records
    gpc,          \* where the goroutine of each request received is
    greq,         \* the request of each goroutine
    gident,       \* the AuthResponse the introspection gave each goroutine
    gresp,        \* the response written to each request
    appended,     \* history: the uploads that stored a slice in gradeBook
    \* portal
    nportal,      \* number of requests the portal served
    portalResp    \* the portal request served last, its calls and its response

courseVars == <<mu, enrollments, openSlots, pc, req, resp, idx, raced>>

authVars == <<now, clockSteps, jwtSecret, minted, nlogin, authResp>>

gradeVars == <<gradeBook, gpc, greq, gident, gresp, appended>>

portalVars == <<nportal, portalResp>>

vars == <<courseVars, authVars, gradeVars, portalVars>>

\* A step of the course service leaves the other services as they are.
CourseStep == UNCHANGED <<authVars, gradeVars, portalVars>>

\* A step of the auth service leaves the other services as they are.
AuthStep == UNCHANGED <<courseVars, gradeVars, portalVars>>

\* A step of the grade service leaves the other services as they are.
GradeStep == UNCHANGED <<courseVars, authVars, portalVars>>

(***************************************************************************)
(* Course service: data.                                                   *)
(***************************************************************************)
\* The requests received so far, numbered in the order of their arrival;
\* net/http serves each in a goroutine of its own.
Requests == DOMAIN pc

\* The IDs of the seeded courses, in the order of the slice.
courses == <<"CCPROG2", "STDISCM", "CSMATH1">>

CourseIDs == {courses[i] : i \in 1..Len(courses)}

\* OpenSlots of the seeded courses, scaled down so that a course can fill
\* with the students of the model: one course with MaxSlots seats, one with
\* a single seat left, one with no seat left.
SeedSlots == [c \in CourseIDs |->
                 CASE c = "CCPROG2" -> MaxSlots
                   [] c = "STDISCM" -> 1
                   [] OTHER -> 0]

\* Course IDs a request may carry: the seeded ones and one that is unknown.
RequestCourseIDs == CourseIDs \cup {"NOCOURSE"}

StudentIDs == {"student1", "student2"}

\* student_id of a /courses query: a student, or "" when the parameter is absent.
QueryStudentIDs == {"student1", ""}

\* enrollKey := req.CourseID + ":" + req.StudentID
EnrollKey(c, s) == c \o ":" \o s

StatusOK == 200
StatusBadRequest == 400
StatusUnauthorized == 401
StatusNotFound == 404
StatusMethodNotAllowed == 405
StatusConflict == 409

\* No response yet.
NoResponse == [status |-> 0, body |-> "", list |-> <<>>]

CourseInit ==
    /\ mu = FALSE
    /\ enrollments = {}
    /\ openSlots = SeedSlots
    /\ pc = <<>>
    /\ req = <<>>
    /\ resp = <<>>
    /\ idx = <<>>
    /\ raced = {}

(***************************************************************************)
(* Course service: enroll.                                                 *)
(***************************************************************************)
\* http.Error / w.Write followed by return: the handler ends with a response.
Respond(r, status, body) ==
    /\ resp' = [resp EXCEPT ![r] = [NoResponse EXCEPT !.status = status,
                                                     !.body = body]]
    /\ pc' = [pc EXCEPT ![r] = "done"]

\* Lines 48 and 80 without the defer: the handler returns with mu held.
NoUnlock_Mutant == UNCHANGED mu

\* Lines 48 and 80: defer mu.Unlock(), run when the handler returns.
Unlock == mu' = FALSE

\* mu.Lock() blocks while the mutex is held.
NoLock_Mutant == TRUE

MuLockable == mu = FALSE

\* Lines 68-77: the method check and the decoding of the body.
EnrollReceive(method, bodyOK, c, s) ==
    /\ CourseStep
    /\ Len(pc) < MaxRequests
    /\ idx' = Append(idx, 0)
    /\ IF method # "POST"
       THEN /\ req' = Append(req, [op |-> "enroll", course |-> "",
                                   student |-> ""])
            /\ resp' = Append(resp, [NoResponse EXCEPT
                                       !.status = StatusMethodNotAllowed,
                                       !.body = "Method not allowed"])
            /\ pc' = Append(pc, "done")
       ELSE IF ~bodyOK
       THEN /\ req' = Append(req, [op |-> "enroll", course |-> "",
                                   student |-> ""])
            /\ resp' = Append(resp, [NoResponse EXCEPT
                                       !.status = StatusBadRequest,
                                       !.body = "decode error"])
            /\ pc' = Append(pc, "done")
       ELSE /\ req' = Append(req, [op |-> "enroll", course |-> c,
                                   student |-> s])
            /\ resp' = Append(resp, NoResponse)
            /\ pc' = Append(pc, "e_lock")
    /\ UNCHANGED <<mu, enrollments, openSlots, raced>>

\* History of the races for the lock: r takes it while another request waits.
Raced(r) ==
    raced' = IF \E q \in Requests \ {r} : pc[q] \in {"e_lock", "g_lock"}
             THEN raced \cup {r} ELSE raced

\* Line 79: mu.Lock(); defer mu.Unlock().
EnrollLock(r) ==
    /\ CourseStep
    /\ pc[r] = "e_lock"
    /\ MuLockable
    /\ mu' = TRUE
    /\ pc' = [pc EXCEPT ![r] = "e_check"]
    /\ Raced(r)
    /\ UNCHANGED <<enrollments, openSlots, req, resp, idx>>

\* Line 84 without the check.
NoDupCheck_Mutant(c, s) == FALSE

\* Line 84: enrollments[enrollKey]
IsEnrolled(c, s) == EnrollKey(c, s) \in enrollments

\* Line 92 with >= for >.
OffByOneCapacity_Mutant(c) == openSlots[c] >= 0

\* Line 92: c.OpenSlots > 0
HasOpenSlot(c) == openSlots[c] > 0

\* Lines 83-92 and 100-104: the duplicate check, the search for the course
\* and the capacity check, all of them reads made with mu held.
EnrollCheck(r) ==
    /\ CourseStep
    /\ pc[r] = "e_check"
    /\ IF IsEnrolled(req[r].course, req[r].student)
       THEN /\ Respond(r, StatusConflict, "Student already enrolled")
            /\ Unlock
       ELSE IF req[r].course \notin CourseIDs
       THEN /\ Respond(r, StatusNotFound, "Course not found")
            /\ Unlock
       ELSE IF HasOpenSlot(req[r].course)
       THEN /\ pc' = [pc EXCEPT ![r] = "e_take"]
            /\ UNCHANGED <<resp, mu>>
       ELSE /\ Respond(r, StatusConflict, "Course full")
            /\ Unlock
    /\ UNCHANGED <<enrollments, openSlots, req, idx, raced>>

\* Line 93 left out.
NoDecrement_Mutant(c) == openSlots

\* Line 93: c.OpenSlots--
Decremented(c) == [openSlots EXCEPT ![c] = @ - 1]

\* Lines 93-98: the seat is taken and the fact recorded, then the response
\* and the deferred unlock.  Both writes are made with mu held and no handler
\* reads the ledger without mu, so they are one step.
EnrollTake(r) ==
    /\ CourseStep
    /\ pc[r] = "e_take"
    /\ openSlots' = Decremented(req[r].course)
    /\ enrollments' = enrollments \cup
                        {EnrollKey(req[r].course, req[r].student)}
    /\ Respond(r, StatusOK, "enrolled")
    /\ Unlock
    /\ UNCHANGED <<req, idx, raced>>

(***************************************************************************)
(* Course service: getCourses.                                             *)
(***************************************************************************)
\* Lines 42-45: the student_id of the query.
GetCoursesReceive(s) ==
    /\ CourseStep
    /\ Len(pc) < MaxRequests
    /\ req' = Append(req, [op |-> "courses", course |-> "", student |-> s])
    /\ resp' = Append(resp, NoResponse)
    /\ idx' = Append(idx, 0)
    /\ pc' = Append(pc, "g_lock")
    /\ UNCHANGED <<mu, enrollments, openSlots, raced>>

\* Line 47: mu.Lock(); defer mu.Unlock().
GetCoursesLock(r) ==
    /\ CourseStep
    /\ pc[r] = "g_lock"
    /\ MuLockable
    /\ mu' = TRUE
    /\ idx' = [idx EXCEPT ![r] = 1]
    /\ pc' = [pc EXCEPT ![r] = "g_loop"]
    /\ Raced(r)
    /\ UNCHANGED <<enrollments, openSlots, req, resp>>

\* Lines 54-61: the copy of one course with its IsEnrolled flag.
TempCourse(i, s) ==
    [id |-> courses[i],
     open_slots |-> openSlots[courses[i]],
     is_enrolled |-> s # "" /\ IsEnrolled(courses[i], s)]

\* Lines 53-64: one turn of the loop, or the encoding of the list after it
\* and the deferred unlock.
GetCoursesLoop(r) ==
    /\ CourseStep
    /\ pc[r] = "g_loop"
    /\ IF idx[r] <= Len(courses)
       THEN /\ resp' = [resp EXCEPT ![r].list =
                           Append(@, TempCourse(idx[r], req[r].student))]
            /\ idx' = [idx EXCEPT ![r] = @ + 1]
            /\ UNCHANGED <<pc, mu>>
       ELSE /\ resp' = [resp EXCEPT ![r].status = StatusOK]
            /\ pc' = [pc EXCEPT ![r] = "done"]
            /\ idx' = [idx EXCEPT ![r] = 0]
            /\ Unlock
    /\ UNCHANGED <<enrollments, openSlots, req, raced>>

CourseNext ==
    \/ \E m \in {"POST", "GET"}, ok \in BOOLEAN,
          c \in RequestCourseIDs, s \in StudentIDs :
            EnrollReceive(m, ok, c, s)
    \/ \E s \in QueryStudentIDs : GetCoursesReceive(s)
    \/ \E r \in Requests :
        \/ EnrollLock(r)
        \/ EnrollCheck(r)
        \/ EnrollTake(r)
        \/ GetCoursesLock(r)
        \/ GetCoursesLoop(r)

(***************************************************************************)
(* Auth service: data.                                                     *)
(***************************************************************************)
\* var users
users == [student1 |-> "pass123", student2 |-> "pass123", faculty1 |-> "pass123"]

\* var roles
roles == [student1 |-> "student", student2 |-> "student", faculty1 |-> "faculty"]

\* Usernames and passwords a login request may carry.
LoginUsernames == {"student1", "faculty1", "nobody"}

LoginPasswords == {"pass123", "wrong", ""}

\* Values of JWT_SECRET the process may be started with ("": unset).
Secrets == {"", "k1"}

\* time.Hour, in seconds.
SecondsPerHour == 3600

\* 1 * time.Hour, in ticks.
TokenLifetime == 1 * SecondsPerHour * TicksPerSecond

\* getJWTKey()
getJWTKey ==
    IF jwtSecret = "" THEN "fallback_secret_for_local_testing" ELSE jwtSecret

\* A nil pointer of RegisteredClaims (*NumericDate), as a time that is no time.
Nil == -1

\* jwt.NewNumericDate(t) that keeps the fraction of the second.
NoTruncate_Mutant(t) == t

\* jwt.NewNumericDate(t): t.Truncate(jwt.TimePrecision), the precision being
\* one second.
NewNumericDate(t) == t - (t % TicksPerSecond)

\* &Claims{Username, Role, RegisteredClaims{ExpiresAt}}: the fields the
\* literal does not set are nil.
NewClaims(username, role, expirationTime) ==
    [Username |-> username, Role |-> role,
     ExpiresAt |-> NewNumericDate(expirationTime), IssuedAt |-> Nil]

\* The HMAC-SHA256 of the encoded claims under a key: the same for the same
\* claims and key, different otherwise.
HMAC(claims, key) == [of |-> claims, key |-> key]

\* token.SignedString(key): the encoded claims followed by their signature.
SignedString(claims, key) ==
    [wellFormed |-> TRUE, claims |-> claims, sig |-> HMAC(claims, key)]

NoClaims == [Username |-> "", Role |-> "", ExpiresAt |-> Nil, IssuedAt |-> Nil]

\* A token string that is no JWT.
Garbage == [wellFormed |-> FALSE, claims |-> NoClaims, sig |-> HMAC(NoClaims, "")]

\* An Authorization header: absent, or a token with or without "Bearer ".
NoHeader == [present |-> FALSE, bearer |-> FALSE, token |-> Garbage]

Header(bearer, token) == [present |-> TRUE, bearer |-> bearer, token |-> token]

\* strings.TrimPrefix(authHeader, "Bearer "): the header without the prefix
\* when it has it, the whole header otherwise.
TrimPrefix(h) == h.token

NoAuthResp ==
    [op |-> "none", username |-> "", password |-> "", header |-> NoHeader,
     status |-> 0, token |-> Garbage, role |-> "", user |-> "", at |-> 0]

AuthInit ==
    /\ now = 0
    /\ clockSteps = 0
    /\ jwtSecret = "k1"
    /\ minted = {}
    /\ nlogin = 0
    /\ authResp = NoAuthResp

(***************************************************************************)
(* Auth service: login.                                                    *)
(***************************************************************************)
\* Lines 54-55 without the test of ok: the password of an unknown user is "".
NoUserCheck_Mutant(username, password) ==
    (IF username \in DOMAIN users THEN users[username] ELSE "") = password

\* Lines 54-55: the lookup of the password and its comparison.
CredentialsOK(username, password) ==
    /\ username \in DOMAIN users
    /\ users[username] = password

\* Line 64: roles[creds.Username]
RoleOf(username) ==
    IF username \in DOMAIN roles THEN roles[username] ELSE ""

\* Lines 47-79.
Login(username, password, bodyOK) ==
    /\ AuthStep
    /\ nlogin < MaxLogins
    /\ nlogin' = nlogin + 1
    /\ IF ~bodyOK
       THEN /\ authResp' = [NoAuthResp EXCEPT !.op = "login_malformed",
                               !.status = StatusBadRequest, !.at = now]
            /\ UNCHANGED minted
       ELSE IF ~CredentialsOK(username, password)
       THEN /\ authResp' = [NoAuthResp EXCEPT !.op = "login",
                               !.username = username, !.password = password,
                               !.status = StatusUnauthorized, !.at = now]
            /\ UNCHANGED minted
       ELSE LET claims == NewClaims(username, RoleOf(username),
                                    now + TokenLifetime)
                tokenString == SignedString(claims, getJWTKey)
            IN  /\ authResp' = [NoAuthResp EXCEPT !.op = "login",
                                   !.username = username,
                                   !.password = password,
                                   !.status = StatusOK,
                                   !.token = tokenString,
                                   !.role = RoleOf(username), !.at = now]
                /\ minted' = minted \cup
                     {[token |-> tokenString, at |-> now, secret |-> jwtSecret]}
    /\ UNCHANGED <<now, clockSteps, jwtSecret>>

(***************************************************************************)
(* Auth service: validate.                                                 *)
(***************************************************************************)
\* The parser of jwt.ParseWithClaims: the token string splits into a header,
\* claims and a signature.
Parses(token) == token.wellFormed

\* The HS256 verification of jwt.ParseWithClaims under the key of the keyfunc.
SignatureOK(token, key) == token.sig = HMAC(token.claims, key)

\* The validator of jwt.ParseWithClaims: a token whose exp is set is expired
\* unless now.Before(exp); one without exp is not.
ExpiredAtExpiry_Mutant(claims, t) ==
    claims.ExpiresAt # Nil /\ ~(t <= claims.ExpiresAt)

Expired(claims, t) == claims.ExpiresAt # Nil /\ ~(t < claims.ExpiresAt)

\* Lines 91-96: err == nil && token.Valid
ParseWithClaims(tokenString, t) ==
    /\ Parses(tokenString)
    /\ SignatureOK(tokenString, getJWTKey)
    /\ ~Expired(tokenString.claims, t)

\* Lines 81-104.
Validate(authHeader) ==
    /\ AuthStep
    /\ IF ~authHeader.present
       THEN authResp' = [NoAuthResp EXCEPT !.op = "validate",
                            !.header = authHeader,
                            !.status = StatusUnauthorized, !.at = now]
       ELSE LET tokenString == TrimPrefix(authHeader)
            IN  IF ~ParseWithClaims(tokenString, now)
                THEN authResp' = [NoAuthResp EXCEPT !.op = "validate",
                                     !.header = authHeader,
                                     !.status = StatusUnauthorized, !.at = now]
                ELSE authResp' = [NoAuthResp EXCEPT !.op = "validate",
                                     !.header = authHeader,
                                     !.status = StatusOK,
                                     !.user = tokenString.claims.Username,
                                     !.role = tokenString.claims.Role,
                                     !.at = now]
    /\ UNCHANGED <<now, clockSteps, jwtSecret, minted, nlogin>>

\* What a client can make of a token it holds without the key: the same
\* token, or the token with its role or its expiry changed and the signature
\* kept.
Presentable(token) ==
    {token,
     [token EXCEPT !.claims.Role = "faculty"],
     [token EXCEPT !.claims.ExpiresAt = @ + TokenLifetime]}

\* The headers a request may carry, given the tokens issued so far.
Headers ==
    {NoHeader, Header(TRUE, Garbage)} \cup
    {Header(b, tok) : b \in BOOLEAN,
                      tok \in UNION {Presentable(m.token) : m \in minted}}

\* Time passes: by one tick, or by one second less than the life of a token.
Tick(d) ==
    /\ AuthStep
    /\ clockSteps < MaxTicks
    /\ clockSteps' = clockSteps + 1
    /\ now' = now + d
    /\ UNCHANGED <<jwtSecret, minted, nlogin, authResp>>

\* The process is stopped and started again with another JWT_SECRET; the
\* tokens issued stay with their holders.
Restart(secret) ==
    /\ AuthStep
    /\ jwtSecret # secret
    /\ jwtSecret' = secret
    /\ authResp' = NoAuthResp
    /\ UNCHANGED <<now, clockSteps, minted, nlogin>>

AuthNext ==
    \/ \E u \in LoginUsernames, pw \in LoginPasswords, ok \in BOOLEAN :
          Login(u, pw, ok)
    \/ \E h \in Headers : Validate(h)
    \/ \E d \in {1, TokenLifetime - TicksPerSecond} : Tick(d)
    \/ \E s \in Secrets : Restart(s)

(***************************************************************************)
(* Grade service: data.                                                    *)
(***************************************************************************)
\* The requests received so far, numbered in the order of their arrival.
GradeRequests == DOMAIN gpc

StatusCreated == 201
StatusForbidden == 403

\* var gradeBook
SeedGrades ==
    <<[StudentID |-> "student1", CourseID |-> "CCPROG1", Grade |-> "4.0"],
      [StudentID |-> "student1", CourseID |-> "MTH101A", Grade |-> "3.5"],
      [StudentID |-> "student2", CourseID |-> "CCPROG1", Grade |-> "2.0"]>>

\* The grade record an upload request may carry.
NewGrades ==
    {[StudentID |-> "student2", CourseID |-> "STDISCM", Grade |-> "3.0"]}

NoGrade == [StudentID |-> "", CourseID |-> "", Grade |-> ""]

\* student_id of a /grades query ("": the parameter is absent).
RequestedStudents == {"student1", "student2", ""}

\* The token login issues to a user at time 0 under the current key.
TokenOf(username) ==
    SignedString(NewClaims(username, RoleOf(username), 0 + TokenLifetime),
                 getJWTKey)

\* The tokens a client may present: issued to a student or to a faculty
\* member, and a student's with the role changed and the signature kept.
ClientTokens ==
    {TokenOf("student1"), TokenOf("faculty1"),
     [TokenOf("student1") EXCEPT !.claims.Role = "faculty"]}

\* The Authorization headers a request to the grade service may carry.
GradeHeaders ==
    {NoHeader, Header(FALSE, TokenOf("faculty1"))} \cup
    {Header(TRUE, tok) : tok \in ClientTokens}

\* How the call of the verifier ends: client.Do returns an error (no
\* connection, or the 2 s timeout), something answers with another status
\* than 200, the body of a 200 does not decode, or the verifier is reached
\* and answers.
Outcomes == {"error", "status", "undecodable", "verifier"}

\* Method and body of an upload request: a POST with a body that decodes or
\* does not, or a GET, which has no body to decode.
UploadForms == {<<"POST", TRUE>>, <<"POST", FALSE>>, <<"GET", FALSE>>}

NoIdentity == [valid |-> FALSE, Username |-> "", Role |-> ""]

NoGradeRequest ==
    [op |-> "none", header |-> NoHeader, student_id |-> "", method |-> "",
     bodyOK |-> FALSE, grade |-> NoGrade]

NoGradeResponse ==
    [status |-> 0, msg |-> "", null |-> FALSE, list |-> <<>>,
     net |-> "none", book |-> <<>>]

GradeInit ==
    /\ gradeBook = SeedGrades
    /\ gpc = <<>>
    /\ greq = <<>>
    /\ gident = <<>>
    /\ gresp = <<>>
    /\ appended = {}

(***************************************************************************)
(* Grade service: the introspection client.                                *)
(***************************************************************************)
\* The answer of the verifier to GET /validate with "Bearer " + tokenString.
VerifierAnswer(tokenString) ==
    IF ParseWithClaims(TrimPrefix(Header(TRUE, tokenString)), now)
    THEN [valid |-> TRUE, Username |-> tokenString.claims.Username,
          Role |-> tokenString.claims.Role]
    ELSE NoIdentity

\* Lines 32-50 with the decoding error ignored.
IgnoreDecodeError_Mutant(outcome, tokenString) ==
    IF outcome = "undecodable"
    THEN [NoIdentity EXCEPT !.valid = TRUE]
    ELSE IF outcome = "verifier" THEN VerifierAnswer(tokenString)
    ELSE NoIdentity

\* Lines 32-50 with the identity of a token kept from the request that first
\* had it accepted, and the verifier called only for tokens not seen before.
CachedIdentity_Mutant(outcome, tokenString) ==
    IF \E g \in DOMAIN gident :
          gident[g].valid /\ TrimPrefix(greq[g].header) = tokenString
    THEN [valid |-> TRUE, Username |-> tokenString.claims.Username,
          Role |-> tokenString.claims.Role]
    ELSE IF outcome \in {"error", "status", "undecodable"}
    THEN NoIdentity
    ELSE VerifierAnswer(tokenString)

\* Lines 32-50: (nil, false) unless client.Do succeeds with status 200 and a
\* body that decodes.
validateTokenAndGetUser(outcome, tokenString) ==
    IF outcome \in {"error", "status", "undecodable"}
    THEN NoIdentity
    ELSE VerifierAnswer(tokenString)

\* A response that is a status and a message.
GradeMessage(status, msg, net) ==
    [NoGradeResponse EXCEPT !.status = status, !.msg = msg, !.net = net]

\* http.Error: the handler ends with a status and a message.
GradeError(g, status, msg, net) ==
    /\ gresp' = [gresp EXCEPT ![g] = GradeMessage(status, msg, net)]
    /\ gpc' = [gpc EXCEPT ![g] = "done"]

\* Lines 54-58 and 93-97: a header that is absent or has no "Bearer " prefix.
HasBearer(h) == h.present /\ h.bearer

\* The outcome of the introspection as the response records it.
NetOf(outcome, user) ==
    IF outcome # "verifier" THEN outcome
    ELSE IF user.valid THEN "accepted" ELSE "rejected"

\* Lines 54-66 and 93-104: the token of the header, the call of
\* validateTokenAndGetUser and its failure.  The handler touches no shared
\* state before the call returns.
Authenticate(request, outcome, missing, invalid) ==
    /\ greq' = Append(greq, request)
    /\ IF ~HasBearer(request.header)
       THEN /\ gresp' = Append(gresp, GradeMessage(StatusUnauthorized,
                                                   missing, "none"))
            /\ gident' = Append(gident, NoIdentity)
            /\ gpc' = Append(gpc, "done")
       ELSE LET user == validateTokenAndGetUser(outcome,
                                                TrimPrefix(request.header))
            IN  IF ~user.valid
                THEN /\ gresp' = Append(gresp,
                                    GradeMessage(StatusUnauthorized, invalid,
                                                 NetOf(outcome, user)))
                     /\ gident' = Append(gident, NoIdentity)
                     /\ gpc' = Append(gpc, "done")
                ELSE /\ gresp' = Append(gresp,
                                    GradeMessage(0, "", NetOf(outcome, user)))
                     /\ gident' = Append(gident, user)
                     /\ gpc' = Append(gpc, "rbac")

(***************************************************************************)
(* Grade service: getGrades.                                               *)
(***************************************************************************)
\* Lines 54-66.
GetGradesReceive(h, q, outcome) ==
    /\ GradeStep
    /\ Len(gpc) < MaxGradeRequests
    /\ Authenticate([NoGradeRequest EXCEPT !.op = "grades", !.header = h,
                                           !.student_id = q],
                    outcome, "Unauthorized: Missing token",
                    "Unauthorized: Invalid Token")
    /\ UNCHANGED <<gradeBook, appended>>

\* Lines 75-78 left out.
AnyoneViews_Mutant(user, requestedStudent) == TRUE

\* Line 75 with || for &&.
OwnFacultyOnly_Mutant(user, requestedStudent) ==
    ~(user.Role # "faculty" \/ user.Username # requestedStudent)

\* Line 75: the rule of getGrades.
MayView(user, requestedStudent) ==
    ~(user.Role # "faculty" /\ user.Username # requestedStudent)

\* Lines 81-86: the records of the student, in the order of the grade book.
RECURSIVE Results(_, _, _)
Results(book, i, requestedStudent) ==
    IF i > Len(book) THEN <<>>
    ELSE (IF book[i].StudentID = requestedStudent THEN <<book[i]>> ELSE <<>>)
         \o Results(book, i + 1, requestedStudent)

\* The uploads that have read gradeBook at line 123 and not yet stored the
\* slice that append returned.
Appending == {u \in GradeRequests : gpc[u] = "append"}

\* A record read while its fields are being stored: none of them, or all but
\* the last.
TornRecords(grade) == {NoGrade, [grade EXCEPT !.Grade = ""]}

\* Line 81 reads gradeBook and line 123 writes it with no synchronisation.
\* A read made while no append is under way sees the slice.  One made during
\* an append is a data race: it sees the slice of before, the slice of after,
\* or the length of after with the new element not (all) written yet.
Views ==
    {gradeBook}
    \cup {Append(gresp[u].book, greq[u].grade) : u \in Appending}
    \cup UNION {{Append(gresp[u].book, rec) : rec \in TornRecords(greq[u].grade)}
                  : u \in Appending}

\* Lines 68-89.  json.Encoder writes a nil slice as null.
GetGradesFinish(g, view) ==
    /\ GradeStep
    /\ gpc[g] = "rbac"
    /\ greq[g].op = "grades"
    /\ IF ~MayView(gident[g], greq[g].student_id)
       THEN GradeError(g, StatusForbidden,
                "Forbidden: You cannot view another student's grades",
                gresp[g].net)
       ELSE LET results == Results(view, 1, greq[g].student_id)
            IN  /\ gresp' = [gresp EXCEPT ![g] =
                                [status |-> StatusOK, msg |-> "",
                                 null |-> results = <<>>, list |-> results,
                                 net |-> gresp[g].net, book |-> gradeBook]]
                /\ gpc' = [gpc EXCEPT ![g] = "done"]
    /\ UNCHANGED <<gradeBook, greq, gident, appended>>

(***************************************************************************)
(* Grade service: uploadGrade.                                             *)
(***************************************************************************)
\* Lines 93-104.
UploadReceive(h, method, bodyOK, grade, outcome) ==
    /\ GradeStep
    /\ Len(gpc) < MaxGradeRequests
    /\ Authenticate([NoGradeRequest EXCEPT !.op = "upload", !.header = h,
                        !.method = method, !.bodyOK = bodyOK,
                        !.grade = IF bodyOK THEN grade ELSE NoGrade],
                    outcome, "Unauthorized", "Unauthorized")
    /\ UNCHANGED <<gradeBook, appended>>

\* Line 107 left out.
AnyRoleUploads_Mutant(user) == TRUE

\* Line 107: the rule of uploadGrade.
MayUpload(user) == ~(user.Role # "faculty")

\* Lines 106-123: the role, the method and the body, then the read of
\* gradeBook that append(gradeBook, newGrade) starts with.
UploadCheck(g) ==
    /\ GradeStep
    /\ gpc[g] = "rbac"
    /\ greq[g].op = "upload"
    /\ IF ~MayUpload(gident[g])
       THEN GradeError(g, StatusForbidden,
                "Forbidden: Only faculty can upload grades", gresp[g].net)
       ELSE IF greq[g].method # "POST"
       THEN GradeError(g, StatusMethodNotAllowed, "Method not allowed",
                       gresp[g].net)
       ELSE IF ~greq[g].bodyOK
       THEN GradeError(g, StatusBadRequest, "decode error", gresp[g].net)
       ELSE /\ gresp' = [gresp EXCEPT ![g].book = gradeBook]
            /\ gpc' = [gpc EXCEPT ![g] = "append"]
    /\ UNCHANGED <<gradeBook, greq, gident, appended>>

\* Lines 123-125: the slice that append returned is stored in gradeBook,
\* whatever was stored there since it was read; then the 201.
UploadAppend(g) ==
    /\ GradeStep
    /\ gpc[g] = "append"
    /\ gradeBook' = Append(gresp[g].book, greq[g].grade)
    /\ appended' = appended \cup {g}
    /\ gresp' = [gresp EXCEPT ![g] =
                    [GradeMessage(StatusCreated, "grade recorded", @.net)
                        EXCEPT !.book = gresp[g].book]]
    /\ gpc' = [gpc EXCEPT ![g] = "done"]
    /\ UNCHANGED <<greq, gident>>

GradeNext ==
    \/ \E h \in GradeHeaders, q \in RequestedStudents, o \in Outcomes :
          GetGradesReceive(h, q, o)
    \/ \E h \in GradeHeaders, f \in UploadForms, gr \in NewGrades,
          o \in Outcomes :
            UploadReceive(h, f[1], f[2], gr, o)
    \/ \E g \in GradeRequests :
        \/ \E view \in Views : GetGradesFinish(g, view)
        \/ UploadCheck(g)
        \/ UploadAppend(g)

(***************************************************************************)
(* Portal: data.                                                           *)
(***************************************************************************)
StatusSeeOther == 303

\* A cookie the request does not carry: r.Cookie returns nil and an error.
NoCookie == "<nil>"

\* The session_token cookie: absent, or a token string.
NoTokenCookie == [present |-> FALSE, value |-> Garbage]

TokenCookie(tok) == [present |-> TRUE, value |-> tok]

\* The cookies a request may carry.  loginHandler sets the three of them, and
\* a client sends back whichever it likes with the values it likes.
Cookies ==
    [token : {NoTokenCookie} \cup {TokenCookie(tok) : tok \in ClientTokens},
     username : {NoCookie, "student1", "student2"},
     role : {NoCookie, "student", "faculty"}]

\* How a call of a backend ends for the caller: client.Do returns an error
\* (no connection, or the timeout), or the service is reached and answers.
CallOutcomes == {"error", "service"}

\* DashboardData{}
NoData ==
    [Username |-> "", Role |-> "", Courses |-> <<>>, Grades |-> <<>>,
     GradeError |-> "", CourseError |-> ""]

\* What dashboardHTML shows of a DashboardData.
NoPage ==
    [rendered |-> FALSE, user |-> "", role |-> "",
     courseOffline |-> FALSE, courses |-> <<>>,
     gradesSection |-> FALSE, gradeOffline |-> FALSE, grades |-> <<>>,
     facultyTools |-> FALSE]

\* A call the handler made: the service, and the status it answered with
\* (0 when client.Do returned an error).
Call(to, status) == [to |-> to, status |-> status]

NoPortalResp ==
    [handler |-> "none", cookies |-> [token |-> NoTokenCookie,
                                      username |-> NoCookie, role |-> NoCookie],
     form |-> "", calls |-> <<>>, status |-> 0, location |-> "",
     body |-> "", panic |-> FALSE, page |-> NoPage,
     set |-> [token |-> NoTokenCookie, username |-> NoCookie,
              role |-> NoCookie],
     clears |-> FALSE, failedBefore |-> 0]

\* A call of the served request did not succeed: client.Do returned an error
\* or the service answered a status that is no success.
CallFailed(served) ==
    \E i \in DOMAIN served.calls :
        served.calls[i].status \notin {StatusOK, StatusCreated}

PortalInit ==
    /\ nportal = 0
    /\ portalResp = NoPortalResp

\* The request of a handler, before it made a call or wrote a response.
\* failedBefore is history, of which the portal keeps none: the number of
\* requests in a row, up to the one served before, in which a call failed.
PortalRequest(handler, cookies, form) ==
    [NoPortalResp EXCEPT !.handler = handler, !.cookies = cookies,
                         !.form = form,
                         !.failedBefore = IF CallFailed(portalResp)
                                          THEN portalResp.failedBefore + 1
                                          ELSE 0]

\* http.Redirect(w, r, location, http.StatusSeeOther)
Redirect(request, calls, location) ==
    [request EXCEPT !.calls = calls, !.status = StatusSeeOther,
                    !.location = location]

\* A nil pointer dereference: the handler panics, net/http recovers the panic
\* and closes the connection without a response.
Panic(request, calls) == [request EXCEPT !.calls = calls, !.panic = TRUE]

(***************************************************************************)
(* Portal: the calls of the backends.                                      *)
(***************************************************************************)
\* The status the auth service answers GET /validate with for the header
\* "Bearer " + tokenString.
ValidateStatus(tokenString) ==
    IF ParseWithClaims(TrimPrefix(Header(TRUE, tokenString)), now)
    THEN StatusOK ELSE StatusUnauthorized

\* The answer of the course service to GET /courses?student_id=s; it does
\* not look at the Authorization header.
CoursesAnswer(s) ==
    [status |-> StatusOK,
     list |-> [i \in 1..Len(courses) |-> TempCourse(i, s)]]

\* The answer of the grade service to GET /grades?student_id=s with the
\* header "Bearer " + tokenString, its own call of the verifier reaching it.
GradesAnswer(tokenString, s) ==
    LET user == validateTokenAndGetUser("verifier", tokenString)
    IN  IF ~user.valid THEN [status |-> StatusUnauthorized, list |-> <<>>]
        ELSE IF ~MayView(user, s)
        THEN [status |-> StatusForbidden, list |-> <<>>]
        ELSE [status |-> StatusOK, list |-> Results(gradeBook, 1, s)]

\* The status fetchFromNode saw: 0 when client.Do returned an error.
FetchStatus(outcome, answer) ==
    IF outcome = "error" THEN 0 ELSE answer.status

\* Lines 153-169 with the status test left out.
AnyFetchStatus_Mutant(outcome, answer) == outcome = "error"

\* Lines 153-169: fetchFromNode returns an error when client.Do fails or the
\* status is not 200 (the bodies of the services always decode).
FetchFailed(outcome, answer) ==
    outcome = "error" \/ answer.status # StatusOK

\* Lines 188-191 with the status test left out.
AnyValidateStatus_Mutant(status) == status # 0

\* Lines 188-191: err == nil && resp.StatusCode == 200
SessionValid(status) == status = StatusOK

\* tmpl.Execute(w, data): what dashboardHTML shows of data.
Render(data) ==
    LET student == data.Role = "student"
    IN  [rendered |-> TRUE, user |-> data.Username, role |-> data.Role,
         courseOffline |-> data.CourseError # "",
         courses |-> IF data.CourseError # "" THEN <<>> ELSE data.Courses,
         gradesSection |-> student,
         gradeOffline |-> student /\ data.GradeError # "",
         grades |-> IF student /\ data.GradeError = ""
                    THEN data.Grades ELSE <<>>,
         facultyTools |-> data.Role = "faculty"]

(***************************************************************************)
(* Portal: dashboardHandler.                                               *)
(***************************************************************************)
\* Lines 198-204: the courses of the page.
WithCourses(data, outcome, answer) ==
    IF FetchFailed(outcome, answer)
    THEN [data EXCEPT !.CourseError = "Service Unreachable"]
    ELSE [data EXCEPT !.Courses = answer.list]

\* Lines 209-217: the grades of the page.
WithGrades(data, outcome, answer) ==
    IF FetchFailed(outcome, answer)
    THEN [data EXCEPT !.GradeError = "Service Unreachable"]
    ELSE [data EXCEPT !.Grades = answer.list]

\* Line 209 without the test of the role.
AlwaysFetchGrades_Mutant(data) == TRUE

\* Line 209 behind a breaker: no grades call for the request that follows one
\* in which a call failed.
BreakerOpen_Mutant(data) == data.Role = "student" /\ ~CallFailed(portalResp)

\* Line 209: data.Role == "student"
FetchesGrades(data) == data.Role = "student"

\* Lines 172-221.
Dashboard(c, authOut, courseOut, gradeOut) ==
    /\ nportal < MaxPortalRequests
    /\ nportal' = nportal + 1
    /\ LET request == PortalRequest("dashboard", c, "")
           valid == FetchStatus(authOut, [status |->
                                   ValidateStatus(c.token.value)])
           authCall == <<Call("auth", valid)>>
       IN  IF ~c.token.present \/ c.username = NoCookie
           THEN portalResp' = Redirect(request, <<>>, "/login")
           ELSE IF ~SessionValid(valid)
           THEN portalResp' = Redirect(request, authCall, "/logout")
           ELSE IF c.role = NoCookie
           THEN portalResp' = Panic(request, authCall)
           ELSE LET data0 == [NoData EXCEPT !.Username = c.username,
                                            !.Role = c.role]
                    cAns == CoursesAnswer(c.username)
                    data1 == WithCourses(data0, courseOut, cAns)
                    cCall == <<Call("course", FetchStatus(courseOut, cAns))>>
                    gAns == GradesAnswer(c.token.value, c.username)
                    data2 == IF FetchesGrades(data1)
                             THEN WithGrades(data1, gradeOut, gAns)
                             ELSE data1
                    gCall == IF FetchesGrades(data1)
                             THEN <<Call("grade", FetchStatus(gradeOut, gAns))>>
                             ELSE <<>>
                IN  portalResp' = [request EXCEPT
                                      !.calls = authCall \o cCall \o gCall,
                                      !.status = StatusOK,
                                      !.page = Render(data2)]
    /\ UNCHANGED <<courseVars, authVars, gradeVars>>

(***************************************************************************)
(* Portal: loginHandler and logoutHandler.                                 *)
(***************************************************************************)
\* The answer of the auth service to POST /login with a body that decodes.
LoginAnswer(username, password) ==
    IF CredentialsOK(username, password)
    THEN [status |-> StatusOK,
          token |-> SignedString(NewClaims(username, RoleOf(username),
                                           now + TokenLifetime), getJWTKey),
          role |-> RoleOf(username)]
    ELSE [status |-> StatusUnauthorized, token |-> Garbage, role |-> ""]

\* Lines 223-252.
PortalLogin(method, username, password, outcome) ==
    /\ nportal < MaxPortalRequests
    /\ nportal' = nportal + 1
    /\ LET request == PortalRequest("login", NoPortalResp.cookies, username)
           answer == LoginAnswer(username, password)
           status == FetchStatus(outcome, answer)
       IN  IF method = "GET"
           THEN /\ portalResp' = [request EXCEPT !.form = "",
                                     !.status = StatusOK, !.body = "loginHTML"]
                /\ UNCHANGED minted
           ELSE IF status # StatusOK
           THEN /\ portalResp' = [request EXCEPT
                                     !.calls = <<Call("auth", status)>>,
                                     !.status = StatusUnauthorized,
                                     !.body = "Login Failed"]
                /\ UNCHANGED minted
           ELSE /\ portalResp' =
                     [Redirect(request, <<Call("auth", status)>>, "/dashboard")
                         EXCEPT !.set = [token |-> TokenCookie(answer.token),
                                         username |-> username,
                                         role |-> answer.role]]
                /\ minted' = minted \cup {[token |-> answer.token, at |-> now,
                                           secret |-> jwtSecret]}
    /\ UNCHANGED <<courseVars, gradeVars, now, clockSteps, jwtSecret, nlogin,
                   authResp>>

\* Lines 289-292.
PortalLogout ==
    /\ nportal < MaxPortalRequests
    /\ nportal' = nportal + 1
    /\ portalResp' = [Redirect(PortalRequest("logout", NoPortalResp.cookies,
                                             ""), <<>>, "/login")
                         EXCEPT !.clears = TRUE]
    /\ UNCHANGED <<courseVars, authVars, gradeVars>>

\* Line 300: every other path.
PortalRoot ==
    /\ nportal < MaxPortalRequests
    /\ nportal' = nportal + 1
    /\ portalResp' = Redirect(PortalRequest("root", NoPortalResp.cookies, ""),
                              <<>>, "/login")
    /\ UNCHANGED <<courseVars, authVars, gradeVars>>

(***************************************************************************)
(* Portal: enrollHandler and uploadGradeHandler.                           *)
(***************************************************************************)
\* The status the course service answers POST /enroll with for a body that
\* decodes to (c, s): lines 82-104 of the course service, served alone.
EnrollStatus(c, s) ==
    IF IsEnrolled(c, s) THEN StatusConflict
    ELSE IF c \notin CourseIDs THEN StatusNotFound
    ELSE IF HasOpenSlot(c) THEN StatusOK
    ELSE StatusConflict

\* Lines 254-265.  The response of the course service is not looked at.
PortalEnroll(c, course_id, outcome) ==
    /\ nportal < MaxPortalRequests
    /\ nportal' = nportal + 1
    /\ LET request == PortalRequest("enroll", c, course_id)
           status == FetchStatus(outcome,
                         [status |-> EnrollStatus(course_id, c.username)])
       IN  IF c.username = NoCookie
           THEN /\ portalResp' = Panic(request, <<>>)
                /\ UNCHANGED <<openSlots, enrollments>>
           ELSE /\ portalResp' = Redirect(request, <<Call("course", status)>>,
                                          "/dashboard")
                /\ IF status = StatusOK
                   THEN /\ openSlots' = Decremented(course_id)
                        /\ enrollments' = enrollments \cup
                                            {EnrollKey(course_id, c.username)}
                   ELSE UNCHANGED <<openSlots, enrollments>>
    /\ UNCHANGED <<mu, pc, req, resp, idx, raced, authVars, gradeVars>>

\* The status the grade service answers POST /upload-grade with for the header
\* "Bearer " + tokenString and a body that decodes: lines 92-126 of the grade
\* service, served alone, its own call of the verifier reaching it.
UploadStatus(tokenString) ==
    LET user == validateTokenAndGetUser("verifier", tokenString)
    IN  IF ~user.valid THEN StatusUnauthorized
        ELSE IF ~MayUpload(user) THEN StatusForbidden
        ELSE StatusCreated

\* Lines 267-287.  The response of the grade service is not looked at.
PortalUpload(c, grade, outcome) ==
    /\ nportal < MaxPortalRequests
    /\ nportal' = nportal + 1
    /\ LET request == PortalRequest("upload", c, grade.StudentID)
           status == FetchStatus(outcome,
                         [status |-> UploadStatus(c.token.value)])
       IN  IF ~c.token.present
           THEN /\ portalResp' = Panic(request, <<>>)
                /\ UNCHANGED gradeBook
           ELSE /\ portalResp' = Redirect(request, <<Call("grade", status)>>,
                                          "/dashboard")
                /\ IF status = StatusCreated
                   THEN gradeBook' = Append(gradeBook, grade)
                   ELSE UNCHANGED gradeBook
    /\ UNCHANGED <<courseVars, authVars, gpc, greq, gident, gresp, appended>>

PortalNext ==
    \/ \E c \in Cookies, a \in CallOutcomes, co \in CallOutcomes,
          g \in CallOutcomes : Dashboard(c, a, co, g)
    \/ \E m \in {"GET", "POST"}, u \in LoginUsernames, pw \in LoginPasswords,
          o \in CallOutcomes : PortalLogin(m, u, pw, o)
    \/ PortalLogout
    \/ PortalRoot
    \/ \E c \in Cookies, id \in RequestCourseIDs, o \in CallOutcomes :
          PortalEnroll(c, id, o)
    \/ \E c \in Cookies, gr \in NewGrades, o \in CallOutcomes :
          PortalUpload(c, gr, o)

Init == CourseInit /\ AuthInit /\ GradeInit /\ PortalInit

CourseSpec == Init /\ [][CourseNext]_vars

\* A step of the handler of request r inside the critical section.
HandlerStep(r) ==
    r \in Requests /\ (EnrollCheck(r) \/ EnrollTake(r) \/ GetCoursesLoop(r))

\* The handler of request r acquires mu.
LockStep(r) == r \in Requests /\ (EnrollLock(r) \/ GetCoursesLock(r))

\* The goroutine of a request that can run does run, and one that waits in
\* mu.Lock() gets the mutex if it is free again and again (sync.Mutex hands
\* the mutex to the longest waiter in starvation mode).
CourseFairness ==
    \A r \in 1..MaxRequests :
        WF_vars(HandlerStep(r)) /\ SF_vars(LockStep(r))

\* The requests that reach the lock: an enroll with the method POST and a
\* body that decodes, for a course with a seat, a full one or an unknown one,
\* and a listing of the courses.
LockingCourseIDs == {"STDISCM", "CSMATH1", "NOCOURSE"}

CourseLiveNext ==
    \/ \E c \in LockingCourseIDs : EnrollReceive("POST", TRUE, c, "student1")
    \/ GetCoursesReceive("student1")
    \/ \E r \in Requests :
        \/ EnrollLock(r)
        \/ EnrollCheck(r)
        \/ EnrollTake(r)
        \/ GetCoursesLock(r)
        \/ GetCoursesLoop(r)

CourseLiveSpec == Init /\ [][CourseLiveNext]_vars /\ CourseFairness

AuthSpec == Init /\ [][AuthNext]_vars

GradeSpec == Init /\ [][GradeNext]_vars

PortalSpec == Init /\ [][PortalNext]_vars

(***************************************************************************)
(* A session: a user logs in at the auth service and presents the token to *)
(* the grade service, whose validateTokenAndGetUser calls /validate of the *)
(* auth service, while time passes and the auth service may be restarted   *)
(* with another key.                                                       *)
(***************************************************************************)
\* The users who log in.
SessionUsers == {"student1", "faculty1"}

\* The Authorization headers of a session: "Bearer " and a token that login
\* issued.
SessionHeaders == {Header(TRUE, m.token) : m \in minted}

\* How the call of the verifier ends in a session: it is unreachable, or it
\* is reached and answers.
SessionOutcomes == {"error", "verifier"}

\* The session has one login: the user logs in while no token is issued, and
\* presents that token from then on.
SessionNext ==
    \/ \E u \in SessionUsers : minted = {} /\ Login(u, users[u], TRUE)
    \/ \E d \in {1, TokenLifetime - TicksPerSecond} : Tick(d)
    \/ \E s \in Secrets : Restart(s)
    \/ \E h \in SessionHeaders, o \in SessionOutcomes :
          GetGradesReceive(h, "student1", o)
    \/ \E h \in SessionHeaders, gr \in NewGrades, o \in SessionOutcomes :
          UploadReceive(h, "POST", TRUE, gr, o)
    \/ \E g \in GradeRequests :
        \/ \E view \in Views : GetGradesFinish(g, view)
        \/ UploadCheck(g)
        \/ UploadAppend(g)

SessionSpec == Init /\ [][SessionNext]_vars

(***************************************************************************)
(* Course service: what the responses say.                                 *)
(***************************************************************************)
\* Request r was an enroll in course c and is answered.
EnrollDone(r, c) ==
    pc[r] = "done" /\ req[r].op = "enroll" /\ req[r].course = c

\* The requests answered so far that were an enroll of student s in course c.
EnrollsDone(c, s) ==
    {r \in Requests : EnrollDone(r, c) /\ req[r].student = s}

Enrolled(r) == resp[r].status = StatusOK /\ resp[r].body = "enrolled"

AlreadyEnrolled(r) ==
    /\ resp[r].status = StatusConflict
    /\ resp[r].body = "Student already enrolled"

CourseFull(r) ==
    resp[r].status = StatusConflict /\ resp[r].body = "Course full"

\* The enrollment facts recorded for course c.
FactsOf(c) == {k \in enrollments : \E s \in StudentIDs : k = EnrollKey(c, s)}

\* The requests answered Enrolled for course c.
EnrolledIn(c) == {r \in Requests : EnrollDone(r, c) /\ Enrolled(r)}

\* C1: in every reachable state, for every course, the open slots plus the
\* number of enrollment facts recorded for the course equal the open slots
\* the course started with.
C1_SlotsPlusFacts ==
    \A c \in CourseIDs :
        openSlots[c] + Cardinality(FactsOf(c)) = SeedSlots[c]

\* C1 witness: a seat was taken (a fact is recorded) while another request
\* is in flight.
C1_Witness ==
    /\ \E c \in CourseIDs : Cardinality(FactsOf(c)) = 1 /\ openSlots[c] = 0
    /\ \E r \in Requests : pc[r] \in {"e_lock", "g_loop"}
    /\ raced # {}

\* The two requests r1, r2 are the only enrolls received for course c, they
\* are for distinct students and both are answered.
TwoEnrollsOnly(c, r1, r2) ==
    /\ r1 # r2
    /\ req[r1].student # req[r2].student
    /\ EnrollDone(r1, c)
    /\ EnrollDone(r2, c)
    /\ \A q \in Requests \ {r1, r2} : req[q].course # c

\* C2: when a course has one open slot and two enrolls of distinct students
\* are served for it, under any interleaving, exactly one is answered
\* Enrolled, the other CourseFull, and the course ends with no open slot.
C2_LastSeatRace ==
    \A c \in {d \in CourseIDs : SeedSlots[d] = 1} : \A r1, r2 \in Requests :
        TwoEnrollsOnly(c, r1, r2) =>
            /\ \/ Enrolled(r1) /\ CourseFull(r2)
               \/ Enrolled(r2) /\ CourseFull(r1)
            /\ openSlots[c] = 0

\* C2 witness: the two enrolls ran concurrently (the winner took the lock
\* while the other waited for it) and the later request won the seat.
C2_Witness ==
    \E c \in CourseIDs : \E r1, r2 \in Requests :
        /\ SeedSlots[c] = 1
        /\ TwoEnrollsOnly(c, r1, r2)
        /\ Len(pc) = 2
        /\ r1 < r2
        /\ r2 \in raced
        /\ Enrolled(r2)
        /\ CourseFull(r1)

\* C3: among the enrolls of one pair (c, s) at most one is answered Enrolled;
\* once one is, every other one is answered AlreadyEnrolled, and none is
\* answered AlreadyEnrolled before one was answered Enrolled; the pair is in
\* the enrollment set exactly when one was answered Enrolled; and the open
\* slots of c went down by exactly one for each Enrolled answer, by nothing for
\* any other answer.
C3_EnrollIdempotent ==
    \A c \in CourseIDs :
        /\ openSlots[c] = SeedSlots[c] - Cardinality(EnrolledIn(c))
        /\ \A s \in StudentIDs :
            LET done == EnrollsDone(c, s)
                won == {r \in done : Enrolled(r)}
                dup == {r \in done : AlreadyEnrolled(r)}
            IN  /\ Cardinality(won) <= 1
                /\ dup # {} => won # {}
                /\ won # {} => done = won \cup dup
                /\ EnrollKey(c, s) \in enrollments <=> won # {}

\* C3 witness: three enrolls of the same pair, two of them racing for the
\* lock; one is answered Enrolled and two AlreadyEnrolled.
C3_Witness ==
    \E c \in CourseIDs, s \in StudentIDs :
        /\ SeedSlots[c] > 1
        /\ Cardinality(EnrollsDone(c, s)) = 3
        /\ Cardinality({r \in EnrollsDone(c, s) : Enrolled(r)}) = 1
        /\ Cardinality({r \in EnrollsDone(c, s) : AlreadyEnrolled(r)}) = 2
        /\ openSlots[c] = SeedSlots[c] - 1
        /\ raced # {}

\* C4: in every reachable state no course has a negative number of open
\* slots, and no more students were answered Enrolled for a course than the
\* course had open slots at the start.
C4_NoDoubleBooking ==
    \A c \in CourseIDs :
        /\ openSlots[c] >= 0
        /\ Cardinality(EnrolledIn(c)) <= SeedSlots[c]

\* C4 witness: more enrolls than seats were served for a course, concurrently,
\* and the course is full.
C4_Witness ==
    \E c \in CourseIDs :
        /\ SeedSlots[c] > 0
        /\ openSlots[c] = 0
        /\ Cardinality(EnrolledIn(c)) = SeedSlots[c]
        /\ \E r \in Requests : EnrollDone(r, c) /\ CourseFull(r)
        /\ raced # {}

(***************************************************************************)
(* Auth service: what the responses say.                                   *)
(***************************************************************************)
\* The validate request served last was answered "valid" with this identity.
AnsweredValid(username, role) ==
    /\ authResp.status = StatusOK
    /\ authResp.user = username
    /\ authResp.role = role

\* The request served last was answered 401 with an empty body.
AnsweredUnauthorized ==
    /\ authResp.status = StatusUnauthorized
    /\ authResp.user = ""
    /\ authResp.role = ""
    /\ authResp.token = Garbage

\* C5: a validate request served at time `at` is answered "valid" with the
\* username and role embedded in the token if and only if the token is
\* present and well formed, its signature is the one the current key gives
\* its claims, and at < expiresAt; every other request is answered 401.
C5_VerifyIff ==
    authResp.op = "validate" =>
        LET h == authResp.header
            good == /\ h.present
                    /\ h.token.wellFormed
                    /\ h.token.sig = HMAC(h.token.claims, getJWTKey)
                    /\ authResp.at < h.token.claims.ExpiresAt
        IN  IF good
            THEN AnsweredValid(h.token.claims.Username, h.token.claims.Role)
            ELSE AnsweredUnauthorized

\* C5 witness: a token is accepted one tick before it expires.
C5_Witness ==
    /\ authResp.op = "validate"
    /\ authResp.status = StatusOK
    /\ authResp.header.token.claims.ExpiresAt = authResp.at + 1
    /\ authResp.user = "student1"

\* C6: a login with a decoded body (username, password) succeeds if and only
\* if the username is in the credential store with that password; then the
\* role in the token and the role in the response are the store's role of the
\* username; every other login gets the same 401 with no token and no role.
C6_LoginIff ==
    authResp.op = "login" =>
        LET u == authResp.username
            known == u \in {"student1", "student2", "faculty1"}
        IN  IF known /\ users[u] = authResp.password
            THEN /\ authResp.status = StatusOK
                 /\ authResp.role = roles[u]
                 /\ authResp.token.wellFormed
                 /\ authResp.token.claims.Role = roles[u]
                 /\ authResp.token.claims.Username = u
            ELSE AnsweredUnauthorized

\* C6 witness: faculty1 logs in and gets a token of role faculty.
C6_Witness ==
    /\ authResp.op = "login"
    /\ authResp.username = "faculty1"
    /\ authResp.status = StatusOK
    /\ authResp.role = "faculty"
    /\ authResp.token.claims.Role = "faculty"

\* C7: while no signing key is configured no token is issued and no token is
\* accepted as valid.
C7_NoKeyNoToken ==
    jwtSecret = "" => authResp.status # StatusOK

\* A validate request for the token m as it was issued, served while the
\* secret is the one the token was issued under.
ValidatedUnchanged(m) ==
    /\ authResp.op = "validate"
    /\ authResp.header.present
    /\ authResp.header.token = m.token
    /\ m.secret = jwtSecret

FailedIntrospection(g) == gresp[g].net \in {"error", "status", "undecodable"}

\* The response to g is the one a request of the same kind got whose token
\* the verifier rejected.
AsForInvalidToken(g) ==
    \A h \in GradeRequests :
        (greq[h].op = greq[g].op /\ gresp[h].net = "rejected") =>
            [gresp[g] EXCEPT !.net = "rejected"] = gresp[h]

\* C9: every grades or upload request whose call of the verifier ended in a
\* connection failure, a timeout, a status other than 200 or a body that does
\* not decode is answered 401, with the response a request with an invalid
\* token gets; the response holds no grade record and the request stores
\* nothing in the grade book.
C9_FailClosed ==
    \A g \in GradeRequests :
        FailedIntrospection(g) =>
            /\ gpc[g] = "done"
            /\ gresp[g].status = StatusUnauthorized
            /\ AsForInvalidToken(g)
            /\ gresp[g].list = <<>> /\ ~gresp[g].null
            /\ g \notin appended

\* C9 witness: a faculty upload with a good token and body whose verifier
\* call failed got the 401 of an upload with a forged token, and the grade
\* book holds the seeded records only.
C9_Witness ==
    \E g, h \in GradeRequests :
        /\ greq[g].op = "upload" /\ greq[h].op = "upload"
        /\ greq[g].header = Header(TRUE, TokenOf("faculty1"))
        /\ greq[g].method = "POST" /\ greq[g].bodyOK
        /\ gresp[g].net = "error"
        /\ gresp[h].net = "rejected"
        /\ gresp[g].status = StatusUnauthorized
        /\ gresp[g].msg = gresp[h].msg
        /\ gradeBook = SeedGrades

\* The grade records there are: the seeded ones and the ones uploads carry.
GradeRecords == {SeedGrades[i] : i \in DOMAIN SeedGrades} \cup NewGrades

\* The records of student q in the book, in the order of the book.
RecordsOf(book, q) == SelectSeq(book, LAMBDA rec : rec.StudentID = q)

\* C10: a grades request for student q whose introspection returned the
\* identity (username, role) is allowed if and only if role = faculty or
\* username = q.  When allowed it is answered 200 with the grade records of q:
\* every record of the response is a grade record of q and every record of q
\* in the grade book as it was when the handler read it is in the response.
\* Otherwise it is answered 403 and the response holds no grade record.
C10_ViewGrades ==
    \A g \in GradeRequests :
        (/\ greq[g].op = "grades"
         /\ gresp[g].net = "accepted"
         /\ gpc[g] = "done") =>
            LET q == greq[g].student_id
                allowed == gident[g].Role = "faculty" \/ gident[g].Username = q
                list == gresp[g].list
                own == RecordsOf(gresp[g].book, q)
            IN  IF allowed
                THEN /\ gresp[g].status = StatusOK
                     /\ \A i \in DOMAIN list :
                            list[i].StudentID = q /\ list[i] \in GradeRecords
                     /\ Len(own) <= Len(list)
                     /\ SubSeq(list, 1, Len(own)) = own
                ELSE /\ gresp[g].status = StatusForbidden
                     /\ list = <<>> /\ ~gresp[g].null

\* C10 without concurrent uploads: the same property for the grades requests
\* served while no upload was between its read of gradeBook and its store.
C10_ViewGradesQuiet ==
    appended = {} /\ Appending = {} => C10_ViewGrades

\* C10 witness: a student got their own two records and a faculty member the
\* record of another student.
C10_Witness ==
    \E g, h \in GradeRequests :
        /\ greq[g].op = "grades" /\ greq[h].op = "grades"
        /\ gident[g].Role = "student"
        /\ gident[g].Username = greq[g].student_id
        /\ Len(gresp[g].list) = 2
        /\ gident[h].Role = "faculty"
        /\ greq[h].student_id = "student2"
        /\ Len(gresp[h].list) = 1

\* C11: an upload whose introspection returned an identity is allowed if and
\* only if the role of the identity is faculty: with any other role it is
\* answered 403 and stores nothing in the grade book, whatever its method and
\* body; with the role faculty it is never answered 403.
C11_UploadFacultyOnly ==
    \A g \in GradeRequests :
        (greq[g].op = "upload" /\ gresp[g].net = "accepted") =>
            IF gident[g].Role = "faculty"
            THEN gresp[g].status # StatusForbidden
            ELSE /\ gpc[g] \in {"rbac", "done"}
                 /\ gpc[g] = "done" => gresp[g].status = StatusForbidden
                 /\ g \notin appended

\* C11 witness: a student's POST with a body that decodes and a student's GET
\* were both answered 403 and the grade book holds the seeded records only.
C11_Witness ==
    \E g, h \in GradeRequests :
        /\ greq[g].op = "upload" /\ greq[h].op = "upload"
        /\ gident[g].Role = "student" /\ gident[h].Role = "student"
        /\ greq[g].method = "POST" /\ greq[g].bodyOK
        /\ greq[h].method = "GET"
        /\ gresp[g].status = StatusForbidden
        /\ gresp[h].status = StatusForbidden
        /\ gradeBook = SeedGrades

(***************************************************************************)
(* Portal: what the responses say.                                         *)
(***************************************************************************)
\* The calls the request served last made to a service.
CallsTo(service) ==
    SelectSeq(portalResp.calls, LAMBDA call : call.to = service)

\* The request served last was a dashboard request whose session validation
\* succeeded.
DashboardValidated ==
    /\ portalResp.handler = "dashboard"
    /\ CallsTo("auth") = <<Call("auth", StatusOK)>>

\* The page of the request served last shows each section as its own call
\* ended: the marker when the call failed, what the service answered when it
\* succeeded, whatever the other call did.
SectionsIndependent ==
    LET page == portalResp.page
        user == portalResp.cookies.username
        tok == portalResp.cookies.token.value
        cFailed == \E i \in DOMAIN CallsTo("course") :
                        CallsTo("course")[i].status # StatusOK
        gFailed == \E i \in DOMAIN CallsTo("grade") :
                        CallsTo("grade")[i].status # StatusOK
    IN  /\ Len(CallsTo("course")) = 1
        /\ page.courseOffline <=> cFailed
        /\ page.courses = IF cFailed THEN <<>> ELSE CoursesAnswer(user).list
        /\ page.gradeOffline <=> gFailed
        /\ page.grades = IF CallsTo("grade") # <<>> /\ ~gFailed
                         THEN GradesAnswer(tok, user).list ELSE <<>>

\* C12: every dashboard request whose session validation succeeded gets the
\* page rendered (never a failure of the whole request); the course section
\* shows the unavailable marker iff the course call failed, the grades section
\* shows it iff the grades call was made and failed, and the content of each
\* section depends on its own call only.
C12_Degradation ==
    DashboardValidated =>
        /\ ~portalResp.panic
        /\ portalResp.status = StatusOK
        /\ portalResp.page.rendered
        /\ SectionsIndependent

\* C12 for the requests that carry a role cookie.
C12_DegradationWithRole ==
    (DashboardValidated /\ portalResp.cookies.role # NoCookie) =>
        /\ ~portalResp.panic
        /\ portalResp.status = StatusOK
        /\ portalResp.page.rendered
        /\ SectionsIndependent

\* C12 witness: the course call failed and the grades call succeeded; the
\* page shows the marker for the courses and the grades of the student.
C12_Witness ==
    /\ DashboardValidated
    /\ portalResp.page.rendered
    /\ portalResp.page.courseOffline
    /\ ~portalResp.page.gradeOffline
    /\ Len(portalResp.page.grades) = 2

\* The response of the request served last is a redirect to re-authenticate,
\* to the login page or to the logout that leads to it, and no page.
RedirectsToLogin(location) ==
    /\ portalResp.status = StatusSeeOther
    /\ portalResp.location = location
    /\ ~portalResp.page.rendered
    /\ ~portalResp.panic

\* C13: a dashboard request whose session validation failed (the verifier
\* could not be reached or answered another status than 200, as it does for a
\* token that does not verify) is answered with a redirect to re-authenticate
\* and makes no call to the course service or to the grade service; a request
\* without session cookie is redirected before any call is made.
C13_ValidationTerminal ==
    portalResp.handler = "dashboard" =>
        LET c == portalResp.cookies
            auth == CallsTo("auth")
        IN  /\ ~c.token.present =>
                  portalResp.calls = <<>> /\ RedirectsToLogin("/login")
            /\ (c.token.present /\ c.username # NoCookie) =>
                  /\ Len(auth) = 1
                  /\ portalResp.calls[1] = auth[1]
                  /\ c.token.value.sig # HMAC(c.token.value.claims, getJWTKey)
                        => auth[1].status # StatusOK
            /\ (auth # <<>> /\ auth[1].status # StatusOK) =>
                  /\ portalResp.calls = <<auth[1]>>
                  /\ RedirectsToLogin("/logout")

\* C13 witness: a request with the good token of student1 whose validation
\* failed because the verifier could not be reached.
C13_Witness ==
    /\ portalResp.handler = "dashboard"
    /\ portalResp.cookies.token = TokenCookie(TokenOf("student1"))
    /\ portalResp.cookies.role = "student"
    /\ portalResp.calls = <<Call("auth", 0)>>
    /\ RedirectsToLogin("/logout")

\* The request served last carried a session token that the verifier accepts.
PresentedValidToken ==
    /\ portalResp.cookies.token.present
    /\ ParseWithClaims(portalResp.cookies.token.value, now)

\* The request served last made a call of the service that was answered with
\* the status.
Answered(service, status) ==
    \E i \in DOMAIN portalResp.calls :
        portalResp.calls[i] = Call(service, status)

\* C14: no resource operation takes effect for a request without a valid
\* token: a request for which the course service enrolled a student or listed
\* the courses, or the grade service recorded a grade or listed grades,
\* presented a token that the verifier accepts.
C14_OperationsNeedToken ==
    (\/ portalResp.handler = "enroll" /\ Answered("course", StatusOK)
     \/ portalResp.handler = "dashboard" /\ Answered("course", StatusOK)
     \/ portalResp.handler = "dashboard" /\ Answered("grade", StatusOK)
     \/ portalResp.handler = "upload" /\ Answered("grade", StatusCreated))
        => PresentedValidToken

\* C14 for the operations of the grade service only.
C14_GradeOperationsNeedToken ==
    (\/ portalResp.handler = "dashboard" /\ Answered("grade", StatusOK)
     \/ portalResp.handler = "upload" /\ Answered("grade", StatusCreated))
        => PresentedValidToken

\* What the user gets of a served request: the response of the portal.
ResponseOf(served) ==
    [status |-> served.status, location |-> served.location,
     body |-> served.body, page |-> served.page, panic |-> served.panic]

\* The served request was a user action that the backend denied.
Denied(served) ==
    /\ served.handler \in {"enroll", "upload"}
    /\ served.calls # <<>>
    /\ served.calls[1].status \in
          {StatusConflict, StatusNotFound, StatusForbidden}

\* The served request was a user action that the backend carried out.
Succeeded(served) ==
    /\ served.handler \in {"enroll", "upload"}
    /\ served.calls # <<>>
    /\ served.calls[1].status \in {StatusOK, StatusCreated}

\* C15: the response of the portal to a user action (enroll, upload grade)
\* that the backend denied (409, 404 or 403) differs from its response to the
\* same kind of action when the backend carried it out.
C15_DeniedDiffers ==
    [][(/\ Denied(portalResp)
        /\ Succeeded(portalResp')
        /\ portalResp.handler = portalResp'.handler)
          => ResponseOf(portalResp) # ResponseOf(portalResp')]_vars

(***************************************************************************)
(* Course service: snapshots, outcomes and frame.                          *)
(***************************************************************************)
\* The ledger as a listCourses for student s shows it: for every course its
\* open slots and whether (course, s) is an enrollment fact.
Snapshot(s) ==
    [i \in 1..Len(courses) |->
        [id |-> courses[i],
         open_slots |-> openSlots[courses[i]],
         is_enrolled |-> s # "" /\ EnrollKey(courses[i], s) \in enrollments]]

\* C16: the response of every listCourses is the snapshot of the ledger at
\* one instant, the one at which the response is completed, whatever enrolls
\* run concurrently: every entry shows the open slots of that instant, which
\* with the facts of that instant add up to the initial open slots, and
\* is_enrolled is true iff (c, s) is a fact at that instant, s being non-empty.
C16_ConsistentSnapshot ==
    [][\A r \in Requests :
          (pc[r] = "g_loop" /\ pc'[r] = "done") =>
              /\ resp'[r].status = StatusOK
              /\ resp'[r].list = Snapshot(req[r].student)
              /\ <<openSlots, enrollments>>' = <<openSlots, enrollments>>
              /\ \A i \in 1..Len(courses) :
                    resp'[r].list[i].open_slots
                      + Cardinality(FactsOf(courses[i])) = SeedSlots[courses[i]]
      ]_vars

\* C16 witness: a listCourses that took the lock while an enroll waited for
\* it is answered, shows its student enrolled in a course that has no open
\* slot left, and an enroll is still waiting.
C16_Witness ==
    \E r \in Requests :
        /\ req[r].op = "courses" /\ pc[r] = "done" /\ r \in raced
        /\ \E i \in 1..Len(courses) :
              /\ resp[r].list[i].is_enrolled
              /\ resp[r].list[i].open_slots = 0
        /\ \E q \in Requests : pc[q] \in {"e_lock", "e_check", "e_take"}

\* The outcome the ledger gives enroll(c, s): status and message.
OutcomeOf(c, s) ==
    IF EnrollKey(c, s) \in enrollments
    THEN <<StatusConflict, "Student already enrolled">>
    ELSE IF c \notin {"CCPROG2", "STDISCM", "CSMATH1"}
    THEN <<StatusNotFound, "Course not found">>
    ELSE IF openSlots[c] = 0
    THEN <<StatusConflict, "Course full">>
    ELSE <<StatusOK, "enrolled">>

\* C17: the answer to enroll(c, s) is the outcome that the ledger of the
\* moment the request is answered gives it, with this precedence:
\* AlreadyEnrolled if (c, s) is a fact; else CourseNotFound if no course has
\* the id c; else CourseFull if c has no open slot; else Enrolled.
C17_EnrollOutcome ==
    [][\A r \in Requests :
          (pc[r] \in {"e_check", "e_take"} /\ pc'[r] = "done") =>
              <<resp'[r].status, resp'[r].body>>
                  = OutcomeOf(req[r].course, req[r].student)
      ]_vars

\* C17 witness: student1 took the last seat of STDISCM, student2 was then
\* answered CourseFull and a repeat by student1 AlreadyEnrolled.
C17_Witness ==
    /\ Len(pc) = 3
    /\ \A r \in 1..3 : req[r].op = "enroll" /\ req[r].course = "STDISCM"
    /\ req[1].student = "student1" /\ Enrolled(1)
    /\ req[2].student = "student2" /\ CourseFull(2)
    /\ req[3].student = "student1" /\ AlreadyEnrolled(3)
    /\ openSlots["STDISCM"] = 0

\* The step is the one in which request r, an enroll of s in c, is answered
\* Enrolled: it takes exactly one open slot of c and adds exactly the fact
\* (c, s), which was not there.
SuccessfulEnrollStep(r) ==
    LET c == req[r].course
        s == req[r].student
    IN  /\ req[r].op = "enroll"
        /\ pc[r] # "done" /\ pc'[r] = "done"
        /\ resp'[r].status = StatusOK /\ resp'[r].body = "enrolled"
        /\ c \in DOMAIN openSlots
        /\ openSlots' = [openSlots EXCEPT ![c] = @ - 1]
        /\ EnrollKey(c, s) \notin enrollments
        /\ enrollments' = enrollments \cup {EnrollKey(c, s)}

\* C18: every step of the course service leaves the ledger (the open slots of
\* all courses and the enrollment set) as it is, or is the answer Enrolled to
\* an enroll(c, s), which takes exactly one open slot of c, adds exactly the
\* fact (c, s) and changes nothing else.  So a failed enroll and a listCourses
\* change nothing, no fact is removed and no open slot count goes up.
C18_LedgerFrame ==
    [][/\ \/ <<openSlots, enrollments>>' = <<openSlots, enrollments>>
          \/ \E r \in Requests : SuccessfulEnrollStep(r)
       /\ enrollments \subseteq enrollments'
       /\ \A c \in DOMAIN openSlots : openSlots'[c] <= openSlots[c]
       /\ \A r \in DOMAIN pc' :
             (/\ pc'[r] = "done"
              /\ r \in DOMAIN pc => pc[r] # "done"
              /\ ~(resp'[r].status = StatusOK /\ resp'[r].body = "enrolled"))
                => <<openSlots, enrollments>>' = <<openSlots, enrollments>>
      ]_vars

\* C18 witness: an enroll was answered Enrolled, another enroll was refused
\* for its method or body, a listCourses was answered, and the ledger holds
\* one fact and one open slot less than at the start.
C18_Witness ==
    /\ \E r \in Requests : req[r].op = "enroll" /\ Enrolled(r)
    /\ \E r \in Requests :
          resp[r].status \in {StatusMethodNotAllowed, StatusBadRequest}
    /\ \E r \in Requests : req[r].op = "courses" /\ pc[r] = "done"
    /\ Cardinality(enrollments) = 1
    /\ \E c \in CourseIDs :
          /\ openSlots[c] = SeedSlots[c] - 1
          /\ \A d \in CourseIDs \ {c} : openSlots[d] = SeedSlots[d]

\* The uploads that were answered 201.
AcceptedUploads ==
    {g \in GradeRequests : greq[g].op = "upload"
                           /\ gresp[g].status = StatusCreated}

\* book is the initial records followed by the records of the uploads of
\* the set accepted, one each, in some order.
SeedPlusUploads(book, accepted) ==
    LET n == Len(SeedGrades)
        k == Cardinality(accepted)
    IN  /\ Len(book) = n + k
        /\ SubSeq(book, 1, n) = SeedGrades
        /\ \E f \in [1..k -> accepted] :
              /\ \A i, j \in 1..k : f[i] = f[j] => i = j
              /\ \A i \in 1..k : book[n + i] = greq[f[i]].grade

\* C19: the grade book is append-only under any interleaving of uploads and
\* list-grades requests: whenever no upload is between its read and its write
\* of the grade book, the grade book is the initial records followed by
\* exactly one record for every upload answered 201, none lost, none twice.
C19_AppendOnly ==
    Appending = {} => SeedPlusUploads(gradeBook, AcceptedUploads)

\* What remains of C19: the initial records are never changed or removed, and
\* every later record is the record of an upload that passed the checks.
C19_SeedKept ==
    /\ Len(gradeBook) >= Len(SeedGrades)
    /\ SubSeq(gradeBook, 1, Len(SeedGrades)) = SeedGrades
    /\ \A i \in (Len(SeedGrades) + 1)..Len(gradeBook) :
          \E g \in GradeRequests :
              /\ greq[g].op = "upload"
              /\ gpc[g] \in {"append", "done"}
              /\ MayUpload(gident[g])
              /\ gradeBook[i] = greq[g].grade

\* The request that the step receives, if it receives one.
Arriving == (DOMAIN gpc') \ (DOMAIN gpc)

\* The verifier was reached for the request and accepts the token at the
\* time of the request, under the key of that time.
AcceptedNow(g) ==
    /\ gresp'[g].net \notin {"error", "status", "undecodable"}
    /\ ParseWithClaims(TrimPrefix(greq'[g].header), now)

\* C20: introspection results are never reused across requests.  Every
\* grades or upload request that carries a bearer token makes its own call to
\* the verifier, and is answered 401 unless that call is answered and accepts
\* the token at that moment, whatever earlier requests with the same token
\* were answered; a request is let through with the identity of that call.
C20_NoReuse ==
    [][\A g \in Arriving :
          HasBearer(greq'[g].header) =>
              /\ gresp'[g].net # "none"
              /\ IF AcceptedNow(g)
                 THEN /\ gpc'[g] = "rbac"
                      /\ gident'[g] = VerifierAnswer(TrimPrefix(greq'[g].header))
                 ELSE /\ gpc'[g] = "done"
                      /\ gresp'[g].status = StatusUnauthorized
                      /\ ~gident'[g].valid
      ]_vars

\* A token was accepted for request g and the same token was answered 401 on
\* the later request h, the verifier ending as net says.
AcceptedThenRejected(g, h, net) ==
    /\ g < h
    /\ greq[g].header = greq[h].header
    /\ gident[g].valid
    /\ gresp[h].status = StatusUnauthorized
    /\ gresp[h].net = net

\* C20 witness: a token accepted for one request is answered 401 on the next
\* because it has expired in between under the same key.
C20_Witness ==
    \E g, h \in GradeRequests :
        /\ AcceptedThenRejected(g, h, "rejected")
        /\ SignatureOK(TrimPrefix(greq[h].header), getJWTKey)
        /\ Expired(TrimPrefix(greq[h].header).claims, now)

\* The same token is answered 401 on the next request because the key of the
\* verifier changed in between.
C20_KeyChanged ==
    \E g, h \in GradeRequests :
        /\ AcceptedThenRejected(g, h, "rejected")
        /\ ~SignatureOK(TrimPrefix(greq[h].header), getJWTKey)
        /\ ~Expired(TrimPrefix(greq[h].header).claims, now)

\* The same token is answered 401 on the next request because the verifier
\* is unreachable, although it would accept the token.
C20_Unreachable ==
    \E g, h \in GradeRequests :
        /\ AcceptedThenRejected(g, h, "error")
        /\ ParseWithClaims(TrimPrefix(greq[h].header), now)

\* The calls of the request served last are as its role cookie says: one of
\* the course service, one of the grade service iff the role is student, and
\* for the role faculty no grades call and no marker of the grades section.
CallsAsRole ==
    LET role == portalResp.cookies.role
    IN  /\ Len(CallsTo("course")) = 1
        /\ Len(CallsTo("grade")) = (IF role = "student" THEN 1 ELSE 0)
        /\ role = "faculty" =>
              /\ CallsTo("grade") = <<>>
              /\ ~portalResp.page.gradeOffline
              /\ ~portalResp.page.gradesSection

\* C21: for a dashboard request that passed session validation, the gateway
\* calls the course service always and the grade service if and only if the
\* role of the request is student; a request with the role faculty triggers
\* no grades call and shows no grades unavailable marker.
C21_CallsByRole == DashboardValidated => CallsAsRole

\* C21 for the requests that carry a role cookie.
C21_CallsByRoleWithRole ==
    (DashboardValidated /\ portalResp.cookies.role # NoCookie) => CallsAsRole

\* A validated request with the role faculty whose course call failed: the
\* page has the marker of the courses and nothing of the grades.
C21_Faculty ==
    /\ DashboardValidated
    /\ portalResp.cookies.role = "faculty"
    /\ portalResp.page.rendered
    /\ portalResp.page.courseOffline
    /\ portalResp.page.facultyTools

\* The request served last attempted a call of the service.
Attempted(service) == CallsTo(service) # <<>>

\* C22: the gateway has no retry and no breaker state.  Within a dashboard
\* request each dependency (verifier, course service, grade service) is called
\* at most once, and whether it is called is decided by the request alone: the
\* verifier iff the session and username cookies are there, the course service
\* iff the validation succeeded and the role cookie is there, the grade service
\* iff moreover the role is student, after however many requests in a row in
\* which calls failed.
C22_NoBreaker ==
    portalResp.handler = "dashboard" =>
        LET c == portalResp.cookies
            validated == CallsTo("auth") = <<Call("auth", StatusOK)>>
        IN  /\ \A service \in {"auth", "course", "grade"} :
                  Len(CallsTo(service)) <= 1
            /\ Len(portalResp.calls) =
                  Len(CallsTo("auth")) + Len(CallsTo("course"))
                      + Len(CallsTo("grade"))
            /\ Attempted("auth") <=>
                  (c.token.present /\ c.username # NoCookie)
            /\ Attempted("course") <=> (validated /\ c.role # NoCookie)
            /\ Attempted("grade") <=> (validated /\ c.role = "student")

\* C22 witness: every request before this one had a failed call, and this
\* dashboard request calls the verifier, the course service and the grade
\* service all the same; the two fetches fail again and are not repeated.
C22_Witness ==
    /\ nportal = MaxPortalRequests
    /\ portalResp.failedBefore = MaxPortalRequests - 1
    /\ portalResp.handler = "dashboard"
    /\ portalResp.calls =
          <<Call("auth", StatusOK), Call("course", 0), Call("grade", 0)>>
    /\ portalResp.page.courseOffline
    /\ portalResp.page.gradeOffline

\* The handler of request r is inside the critical section of mu.
InCritical(r) == pc[r] \in {"e_check", "e_take", "g_loop"}

\* mu is held exactly while one handler is inside its critical section: every
\* return of enroll and getCourses has released it.
LockReleased ==
    /\ mu <=> \E r \in Requests : InCritical(r)
    /\ \A r, q \in Requests : (InCritical(r) /\ InCritical(q)) => r = q

\* Request r waits in mu.Lock().
AtLock(r) == r \in Requests /\ pc[r] \in {"e_lock", "g_lock"}

\* Request r has its response.
Responded(r) == r \in Requests /\ pc[r] = "done" /\ resp[r].status # 0

\* C23: the ledger lock is released on every exit path of enroll and
\* getCourses (success, AlreadyEnrolled, CourseFull, CourseNotFound), so the
\* course service never deadlocks: under fair scheduling every enroll or
\* listCourses request that reaches the lock eventually acquires it and gets
\* its response.
C23_NoDeadlock ==
    /\ []LockReleased
    /\ \A r \in 1..MaxRequests : AtLock(r) ~> Responded(r)

\* C23 witness: every request of the run took the lock while another waited
\* for it or after one that had, all have their responses, one of them a
\* refusal made with the lock held, and the lock is free.
C23_Witness ==
    /\ Len(pc) = MaxRequests
    /\ \A r \in Requests : Responded(r)
    /\ Cardinality(raced) >= MaxRequests - 1
    /\ \E r \in Requests : Enrolled(r)
    /\ \E r \in Requests : AlreadyEnrolled(r) \/ CourseFull(r)
    /\ ~mu

\* The identity embedded in the token may view the record under the policy
\* of the grade service: its own, or any for a faculty member.
MayBeShown(tokenString, rec) ==
    \/ tokenString.claims.Role = "faculty"
    \/ rec.StudentID = tokenString.claims.Username

\* C24: whatever username and role cookies a client sends to the gateway, the
\* grades shown on the dashboard are records of the grade book that the
\* identity embedded in the presented session token may view, and the token
\* is one the verifier accepts: a client with the token of student s gets no
\* record of another student rendered by changing the username or the role
\* cookie.
C24_GradesOfTokenOnly ==
    portalResp.handler = "dashboard" =>
        LET tok == portalResp.cookies.token.value
            shown == portalResp.page.grades
        IN  \A i \in DOMAIN shown :
                /\ portalResp.cookies.token.present
                /\ ParseWithClaims(tok, now)
                /\ \E j \in DOMAIN gradeBook : gradeBook[j] = shown[i]
                /\ MayBeShown(tok, shown[i])

\* C24 witness: the token of student1 with the username cookie of student2,
\* who has grades: the grade service answers 403 and the page shows the
\* marker instead of grades.
C24_Witness ==
    /\ portalResp.handler = "dashboard"
    /\ portalResp.cookies.token = TokenCookie(TokenOf("student1"))
    /\ portalResp.cookies.username = "student2"
    /\ portalResp.cookies.role = "student"
    /\ Results(gradeBook, 1, "student2") # <<>>
    /\ portalResp.calls = <<Call("auth", StatusOK), Call("course", StatusOK),
                            Call("grade", StatusForbidden)>>
    /\ portalResp.page.rendered
    /\ portalResp.page.gradeOffline
    /\ portalResp.page.grades = <<>>

\* A faculty token with the role cookie student and the username cookie of a
\* student: the grades of that student are shown, as the policy allows.
C24_FacultyToken ==
    /\ portalResp.handler = "dashboard"
    /\ portalResp.cookies.token = TokenCookie(TokenOf("faculty1"))
    /\ portalResp.cookies.username = "student2"
    /\ portalResp.page.grades = Results(gradeBook, 1, "student2")
    /\ portalResp.page.grades # <<>>

=============================================================================
